---- MODULE Spec2Model ----
(***************************************************************************)
(* A model of the BricksLLM proxy: the route handler of                    *)
(* internal/server/web/proxy/route.go (getRouteHandler, parseResult) and   *)
(* the start-up / shutdown sequence of cmd/bricksllm/main.go.              *)
(*                                                                         *)
(* The route run behind rc.RunSteps and the rate admission of the          *)
(* validator are not part of these two files; they are modelled as the     *)
(* failover state machine and the atomic counter of the specification.     *)
(* Neither is the proxy server that main.go builds around the handler      *)
(* (line 235, from the validator, the rate-limit manager, the recorder and *)
(* the message bus): its admission check before the handler and its event  *)
(* emitter after it follow the specification's request flow.               *)
(*                                                                         *)
(* Costs are kept in micro-USD (an integer) where the code keeps a float64 *)
(* amount of USD; bodies are the literal bytes of the HTTP bodies.         *)
(***************************************************************************)
EXTENDS Integers, Sequences, FiniteSets, TLC

VARIABLES
    pc,          \* route handler: position of each request's handler
    ctx,         \* route handler: what the middleware left in the gin.Context
    got,         \* route handler: what ca.GetBytes returned, and whose entry it read
    runRes,      \* route handler: what rc.RunSteps returned
    resp,        \* route handler: what was written to the client
    ctxSet,      \* route handler: the keys the handler set on the gin.Context
    log,         \* route handler: the calls the handler made, in order
    cache,       \* the response cache (ca), shared by all requests
    issuedAfter, \* for each request, the requests that had stored when it arrived
    checked,     \* proxy: whether the admission check was performed for the request
    events,      \* proxy: the usage events published for each request, in order
    mpc,         \* main: the statement main() is at
    midx,        \* main: the index within a run of like statements
    reachable,   \* main: the backends that accept a connection
    exitCode,    \* main: the exit status of the process (-1 while it runs)
    refreshers,  \* main: the in-memory replicas whose refresher runs
    consumers,   \* main: the event consumers: "none", "running" or "stopped"
    adminSrv,    \* main: the admin server: "none", "serving" or "closed"
    proxySrv,    \* main: the proxy server: "none", "serving" or "closed"
    conns,       \* main: the proxy's requests: "none", "inflight", "done", "killed"
    atSignal,    \* main: the requests in flight when the signal arrived
    queue,       \* main: the events published and not yet processed
    processed,   \* main: the events an event consumer has processed
    steps,       \* route run: the steps of the route, in list order
    rstate,      \* route run: "Idle", "Running", "Succeeded", "Failed", "Cancelled"
    ridx,        \* route run: the index i of Running(i), counted from 0
    attempts,    \* route run: the upstream calls made, in the order they began
    now,         \* route run: the time passed since the route run began
    count,       \* rate admission: the counter of each window bucket of the key
    window,      \* rate admission: the window bucket the clock is in
    admission    \* rate admission: each request's position, bucket and answer

hvars == <<pc, ctx, got, runRes, resp, ctxSet, log, cache, issuedAfter, checked, events>>

mvars == <<mpc, midx, reachable, exitCode, refreshers, consumers, adminSrv, proxySrv,
           conns, atSignal, queue, processed>>

rvars == <<steps, rstate, ridx, attempts, now>>

lvars == <<count, window, admission>>

vars == <<hvars, mvars, rvars, lvars>>

-----------------------------------------------------------------------------
(* Bounds *)

\* Number of requests handled concurrently in SpecCache.
NumReqs == 2

Reqs == 1 .. NumReqs

\* Number of requests the proxy server accepts in SpecMain.
MaxConns == 2

Conns == 1 .. MaxConns

-----------------------------------------------------------------------------
(* HTTP statuses used by the handler (net/http constants). *)

StatusOK == 200
StatusUnauthorized == 401
StatusNotFound == 404
StatusRequestTimeout == 408
StatusInternalServerError == 500

-----------------------------------------------------------------------------
(* Inputs *)

\* Response bodies an upstream can send.
BodyChat == "{\"model\":\"gpt-4\",\"usage\":{\"prompt_tokens\":2,\"completion_tokens\":1,\"total_tokens\":3}}"
BodyChatUnknown == "{\"model\":\"mystery-1\",\"usage\":{\"prompt_tokens\":2,\"completion_tokens\":1,\"total_tokens\":3}}"
BodyEmbedding == "{\"model\":\"text-embedding-ada-002\",\"data\":[{\"embedding\":[0.1]}],\"usage\":{\"prompt_tokens\":5,\"total_tokens\":5}}"
BodyError == "{\"error\":{\"message\":\"bad gateway\"}}"
BodyGarbage == "<html>upstream exploded</html>"
BodyEmpty == ""

Bodies == {BodyChat, BodyChatUnknown, BodyEmbedding, BodyError, BodyGarbage, BodyEmpty}

\* len(bytes)
BytesLen(b) == IF b = "" THEN 0 ELSE 1

\* Upstream statuses: 200, another 2xx, and a non-2xx.
Statuses == {200, 201, 502}

HeaderNames == {"Content-Type", "Set-Cookie", "X-Request-Id"}

NoHeader == [n \in HeaderNames |-> <<>>]

\* http.Header values: each name maps to the list of its values.
HeaderMaps ==
    { NoHeader,
      [NoHeader EXCEPT !["Content-Type"] = <<"text/html">>, !["X-Request-Id"] = <<"abc">>],
      [NoHeader EXCEPT !["Set-Cookie"] = <<"a=1", "b=2">>, !["X-Request-Id"] = <<"abc">>] }

\* route.Route as the handler reads it: CacheConfig (nil or {Ttl}) and
\* ShouldRunEmbeddings().
Routes ==
    [hasCacheConfig : {FALSE}, Ttl : {""}, embeddings : BOOLEAN]
        \cup [hasCacheConfig : {TRUE}, Ttl : {"60s", "soon"}, embeddings : BOOLEAN]

NoRoute == [hasCacheConfig |-> FALSE, Ttl |-> "<nil>", embeddings |-> FALSE]

CacheKeys == {"k1"}

\* What the middleware leaves in the gin.Context before the handler runs.
Contexts ==
    [hasRequest : BOOLEAN,
     key : BOOLEAN,
     route_config : Routes \cup {NoRoute},
     cache_key : CacheKeys \cup {""},
     settings : BOOLEAN,
     encoding_format : {"", "base64"}]

\* The (Provider, Model) pairs a route run can report for its chosen step.
StepChoices ==
    { [Provider |-> "openai", Model |-> "gpt-4"],
      [Provider |-> "azure", Model |-> "text-embedding-ada-002"],
      [Provider |-> "anthropic", Model |-> "claude-2"] }

\* What rc.RunSteps can return: an error, or a result with an open response.
RunErrors == {"context.DeadlineExceeded", "connection refused"}

RunResults ==
    [err : {""},
     StatusCode : Statuses,
     Header : HeaderMaps,
     Body : Bodies,
     readErr : BOOLEAN,
     step : StepChoices]

NoRun ==
    [err |-> "<none>", StatusCode |-> 0, Header |-> NoHeader, Body |-> "",
     readErr |-> FALSE, step |-> [Provider |-> "", Model |-> ""]]

RunFailure(e) == [NoRun EXCEPT !.err = e]

RunOutcomes == RunResults \cup {RunFailure(e) : e \in RunErrors}

-----------------------------------------------------------------------------
(* Library and collaborator behaviour the handler relies on *)

\* time.ParseDuration on the TTL strings used here.
ParseDuration(s) ==
    IF s = "60s" THEN [err |-> FALSE, d |-> 60] ELSE [err |-> TRUE, d |-> 0]

NoUsage == [err |-> TRUE, model |-> "", prompt |-> 0, completion |-> 0, total |-> 0]

\* json.Unmarshal of a body into a struct with model and usage fields; base64
\* says that the embeddings are expected as strings.
Unmarshal(bytes, base64) ==
    CASE bytes = BodyChat ->
            [err |-> FALSE, model |-> "gpt-4", prompt |-> 2, completion |-> 1, total |-> 3]
      [] bytes = BodyChatUnknown ->
            [err |-> FALSE, model |-> "mystery-1", prompt |-> 2, completion |-> 1, total |-> 3]
      [] bytes = BodyEmbedding ->
            IF base64 THEN NoUsage
            ELSE [err |-> FALSE, model |-> "text-embedding-ada-002", prompt |-> 5,
                  completion |-> 0, total |-> 5]
      [] bytes = BodyError -> [NoUsage EXCEPT !.err = FALSE]
      [] OTHER -> NoUsage

\* Price table, micro-USD per token: <<prompt, completion>>.
HasPrice(model) == model \in {"gpt-4", "text-embedding-ada-002"}

Price(model) == IF model = "gpt-4" THEN <<30, 60>> ELSE <<1, 0>>

\* estimator.EstimateTotalCost
EstimateTotalCost(model, promptTks, completionTks) ==
    IF HasPrice(model)
    THEN [err |-> FALSE, cost |-> promptTks * Price(model)[1] + completionTks * Price(model)[2]]
    ELSE [err |-> TRUE, cost |-> 0]

\* estimator.EstimateEmbeddingsInputCost
EstimateEmbeddingsInputCost(model, tks) ==
    IF model = "text-embedding-ada-002"
    THEN [err |-> FALSE, cost |-> tks * Price(model)[1]]
    ELSE [err |-> TRUE, cost |-> 0]

\* gin: Context.Header(name, value) for each value in turn. Header sets the
\* name to the one value (replacing what was there) and deletes it on "".
HeaderAfter(values) ==
    IF values = <<>> THEN <<>>
    ELSE IF values[Len(values)] = "" THEN <<>>
    ELSE <<values[Len(values)]>>

\* gin: render.Data sets Content-Type only when the header is not yet set.
WriteContentType(h, ct) ==
    IF h["Content-Type"] = <<>> THEN [h EXCEPT !["Content-Type"] = <<ct>>] ELSE h

\* gin: bodyAllowedForStatus
BodyAllowedForStatus(status) ==
    ~ (status \in 100 .. 199 \/ status = 204 \/ status = 304)

\* gin: Context.Data(code, contentType, data) on a writer holding headers h.
Data(h, code, contentType, data) ==
    [n |-> 1, status |-> code, headers |-> WriteContentType(h, contentType),
     body |-> IF BodyAllowedForStatus(code) THEN data ELSE ""]

\* proxy.JSON(c, code, message): the error body {"error": message}.
JSON(code, message) ==
    [n |-> 1, status |-> code, headers |-> WriteContentType(NoHeader, "application/json"),
     body |-> message]

NoResp == [n |-> 0, status |-> 0, headers |-> NoHeader, body |-> ""]

-----------------------------------------------------------------------------
(* The response cache (cache interface, route.go lines 25-28) *)

NoEntry == [present |-> FALSE, val |-> "", by |-> 0]

\* ca.GetBytes(key): the stored bytes, or an error (a miss or a backend failure).
GetBytes(key, fails) ==
    IF fails \/ ~cache[key].present
    THEN [err |-> TRUE, bytes |-> ""]
    ELSE [err |-> FALSE, bytes |-> cache[key].val]

NoGet == [err |-> TRUE, bytes |-> ""]

\* The lookup a request made: called says whether GetBytes was called, by
\* names the request whose entry was in the cache at that moment (0: none).
NoLookup == [called |-> FALSE, err |-> TRUE, bytes |-> "", by |-> 0]

Looked(get, key) ==
    [called |-> TRUE, err |-> get.err, bytes |-> get.bytes,
     by |-> IF cache[key].present THEN cache[key].by ELSE 0]

\* ca.StoreBytes(key, value, ttl) by request r; nothing is written when it fails.
StoreBytes(r, key, value, fails) ==
    IF fails THEN cache ELSE [cache EXCEPT ![key] = [present |-> TRUE, val |-> value, by |-> r]]

-----------------------------------------------------------------------------
(* parseResult, route.go lines 176-273 *)

\* The values the deferred function sets on the gin.Context, and the error
\* parseResult returns.
Parsed(err, provider, cost, promptTokenCounts, completionTokenCounts) ==
    [err |-> err, provider |-> provider, costInUsd |-> cost,
     promptTokenCount |-> promptTokenCounts, completionTokenCount |-> completionTokenCounts]

parseResult(runEmbeddings, format, bytes, model, provider) ==
    IF runEmbeddings
    THEN LET u == Unmarshal(bytes, format = "base64")
             ecost == EstimateEmbeddingsInputCost(model, u.total)
         IN  IF u.err THEN Parsed(TRUE, provider, 0, 0, 0)
             ELSE IF provider \in {"azure", "openai"}
             THEN IF ecost.err THEN Parsed(TRUE, provider, 0, u.prompt, 0)
                  ELSE Parsed(FALSE, provider, ecost.cost, u.prompt, 0)
             ELSE Parsed(FALSE, provider, 0, u.prompt, 0)
    ELSE LET chatRes == Unmarshal(bytes, FALSE)
             est == EstimateTotalCost(chatRes.model, chatRes.prompt, chatRes.completion)
         IN  IF chatRes.err THEN Parsed(TRUE, provider, 0, 0, 0)
             ELSE IF provider \in {"azure", "openai"}
             THEN Parsed(est.err, provider, est.cost, chatRes.prompt, chatRes.completion)
             ELSE Parsed(FALSE, provider, 0, chatRes.prompt, chatRes.completion)

-----------------------------------------------------------------------------
(* getRouteHandler, route.go lines 30-174 *)

NoCtxSet ==
    [provider |-> "", model |-> "", accounted |-> 0, parseErr |-> FALSE,
     costInUsd |-> 0, promptTokenCount |-> 0, completionTokenCount |-> 0]

\* shouldCache := len(cacheKey) != 0
ShouldCache(c) == BytesLen(c.cache_key) # 0

\* Fault variant of CacheHit: the length test inverted.
CacheHitOnEmpty(get) == ~get.err /\ BytesLen(get.bytes) = 0

\* Line 65: err == nil && len(bytes) != 0
CacheHit(get) == ~get.err /\ BytesLen(get.bytes) # 0

\* Lines 44-46: the key record the authenticator resolved.
HasKey(c) == c.key

\* Lines 52-54: the route record.
HasRoute(c) == c.route_config # NoRoute

\* Fault variant of HasSettings: the check left out.
NoSettingsCheck(c) == TRUE

\* Lines 75-77: the provider settings.
HasSettings(c) == c.settings

Outcome(to, w, provider, calls) ==
    [to |-> to, resp |-> w, provider |-> provider, log |-> calls]

\* Fault variant of Entry: a cache hit does not end the handler.
EntryWithoutHitReturn(c, get, looked) ==
    IF ~c.hasRequest
    THEN Outcome("done", JSON(StatusInternalServerError, "[BricksLLM] context is empty"),
                 "", <<"JSON">>)
    ELSE IF ~HasKey(c)
    THEN Outcome("done", JSON(StatusUnauthorized, "[BricksLLM] api key is not registered"),
                 "", <<"JSON">>)
    ELSE IF ~HasRoute(c)
    THEN Outcome("done", JSON(StatusNotFound, "[BricksLLM] route config not found"),
                 "", <<"JSON">>)
    ELSE IF ~HasSettings(c)
    THEN Outcome("done", JSON(StatusNotFound, "[BricksLLM] provider settings not found"),
                 "", looked \o <<"JSON">>)
    ELSE Outcome("run", NoResp, "", looked)

\* Fault variant of Entry: the provider settings checked before the cache is
\* looked at.
EntrySettingsBeforeCache(c, get, looked) ==
    IF ~c.hasRequest
    THEN Outcome("done", JSON(StatusInternalServerError, "[BricksLLM] context is empty"),
                 "", <<"JSON">>)
    ELSE IF ~HasKey(c)
    THEN Outcome("done", JSON(StatusUnauthorized, "[BricksLLM] api key is not registered"),
                 "", <<"JSON">>)
    ELSE IF ~HasRoute(c)
    THEN Outcome("done", JSON(StatusNotFound, "[BricksLLM] route config not found"),
                 "", <<"JSON">>)
    ELSE IF ~HasSettings(c)
    THEN Outcome("done", JSON(StatusNotFound, "[BricksLLM] provider settings not found"),
                 "", looked \o <<"JSON">>)
    ELSE IF ShouldCache(c) /\ CacheHit(get)
    THEN Outcome("done", Data(NoHeader, StatusOK, "application/json", get.bytes),
                 "cached", looked \o <<"Data">>)
    ELSE Outcome("run", NoResp, "", looked)

\* Lines 39-86: the checks made before the route is run, given what the cache
\* lookup (made only when it is reached) returns; looked is the record of
\* that lookup for the log.
Entry(c, get, looked) ==
    IF ~c.hasRequest
    THEN Outcome("done", JSON(StatusInternalServerError, "[BricksLLM] context is empty"),
                 "", <<"JSON">>)
    ELSE IF ~HasKey(c)
    THEN Outcome("done", JSON(StatusUnauthorized, "[BricksLLM] api key is not registered"),
                 "", <<"JSON">>)
    ELSE IF ~HasRoute(c)
    THEN Outcome("done", JSON(StatusNotFound, "[BricksLLM] route config not found"),
                 "", <<"JSON">>)
    ELSE IF ShouldCache(c) /\ CacheHit(get)
    THEN Outcome("done", Data(NoHeader, StatusOK, "application/json", get.bytes),
                 "cached", looked \o <<"Data">>)
    ELSE IF ~HasSettings(c)
    THEN Outcome("done", JSON(StatusNotFound, "[BricksLLM] provider settings not found"),
                 "", looked \o <<"JSON">>)
    ELSE Outcome("run", NoResp, "", looked)

\* A response written by request r: every write is counted.
Written(r, w) == [w EXCEPT !.n = resp[r].n + 1]

\* The request flow of the proxy: authentication, admission, route planner.
\* The handler is the route planner's entry and makes no admission call
\* itself, so the admission check of a request that carries a key record has
\* been performed by the time its handler runs.
Admitted(c) == c.hasRequest /\ HasKey(c)

\* The hot path publishes one event per request that passed admission; a
\* request rejected before it is counted, not published.
EmitsEvent(admitted) == admitted

\* The event carries the request-scoped accounting state the handler left on
\* the context (on a cache hit the provider "cached" of line 69) and the
\* outcome.
Event(set, w) ==
    [provider |-> set.provider, model |-> set.model, costInUsd |-> set.costInUsd,
     status |-> w.status]

\* The emitter runs when the handler of request r has returned.
Publish(r) ==
    events' = [events EXCEPT ![r] =
                  IF pc'[r] = "done" /\ EmitsEvent(checked[r])
                  THEN Append(@, Event(ctxSet'[r], resp'[r]))
                  ELSE @]

\* A request arrives with the context c the middleware prepared; the
\* admission check has been made on the way.
Arrive(r, c) ==
    /\ pc[r] = "idle"
    /\ pc' = [pc EXCEPT ![r] = "start"]
    /\ ctx' = [ctx EXCEPT ![r] = c]
    /\ issuedAfter' = [issuedAfter EXCEPT ![r] =
                          {q \in Reqs : \E i \in 1 .. Len(log[q]) : log[q][i] = "StoreBytes:ok"}]
    /\ checked' = [checked EXCEPT ![r] = Admitted(c)]
    /\ UNCHANGED <<got, runRes, resp, ctxSet, log, cache, events>>
    /\ UNCHANGED <<mvars, rvars, lvars>>

\* Lines 39-86.
Lookup(r) ==
    /\ pc[r] = "start"
    /\ \E fails \in BOOLEAN :
          LET c == ctx[r]
              reached == c.hasRequest /\ HasKey(c) /\ HasRoute(c) /\ ShouldCache(c)
              get == IF reached THEN GetBytes(c.cache_key, fails) ELSE NoGet
              looked == IF ~reached THEN <<>>
                        ELSE IF fails THEN <<"GetBytes:fail">>
                        ELSE IF get.err THEN <<"GetBytes:nil">>
                        ELSE <<"GetBytes:ok">>
              o == Entry(c, get, looked)
          IN  /\ pc' = [pc EXCEPT ![r] = o.to]
              /\ resp' = [resp EXCEPT ![r] = IF o.to = "done" THEN Written(r, o.resp) ELSE @]
              /\ ctxSet' = [ctxSet EXCEPT ![r].provider = o.provider]
              /\ log' = [log EXCEPT ![r] = @ \o o.log]
              /\ got' = [got EXCEPT ![r] =
                            IF reached THEN Looked(get, c.cache_key) ELSE NoLookup]
    /\ Publish(r)
    /\ UNCHANGED <<ctx, runRes, cache, issuedAfter, checked>>
    /\ UNCHANGED <<mvars, rvars, lvars>>

\* Fault variant of IsDeadlineExceeded: every error taken for a timeout.
AnyErrorIsDeadline(e) == TRUE

\* errors.Is(err, context.DeadlineExceeded)
IsDeadlineExceeded(e) == e = "context.DeadlineExceeded"

\* Lines 97-109: the response to a failed route run.
RunError(e) ==
    IF IsDeadlineExceeded(e)
    THEN JSON(StatusRequestTimeout, "[BricksLLM] request timeout")
    ELSE JSON(StatusInternalServerError, "[BricksLLM] cannot run route steps")

\* Fault variant of AfterRunError: the return left out, the handler goes on to
\* read the response.
RunErrorFallsThrough == "read"

\* Lines 102 and 108: the handler returns once it has answered a failed run.
AfterRunError == "done"

\* Lines 88-116: rc.RunSteps returns out.
RunSteps(r, out) ==
    /\ pc[r] = "run"
    /\ runRes' = [runRes EXCEPT ![r] = out]
    /\ IF out.err # ""
       THEN /\ pc' = [pc EXCEPT ![r] = AfterRunError]
            /\ resp' = [resp EXCEPT ![r] = Written(r, RunError(out.err))]
            /\ log' = [log EXCEPT ![r] = @ \o <<"RunSteps", "JSON">>]
            /\ UNCHANGED ctxSet
       ELSE /\ pc' = [pc EXCEPT ![r] = "read"]
            /\ ctxSet' = [ctxSet EXCEPT ![r].model = out.step.Model]
            /\ log' = [log EXCEPT ![r] = @ \o <<"RunSteps">>]
            /\ UNCHANGED resp
    /\ Publish(r)
    /\ UNCHANGED <<ctx, got, cache, issuedAfter, checked>>
    /\ UNCHANGED <<mvars, rvars, lvars>>

\* Lines 166-170: the upstream headers as c.Header leaves them on the writer.
CopyHeaders(h) == [n \in HeaderNames |-> HeaderAfter(h[n])]

\* Fault variant of IsSuccess: every upstream status taken for a success.
AnyStatusIsSuccess(status) == TRUE

\* Line 128: the statuses for which the response is cached and accounted.
IsSuccess(status) == status = StatusOK

\* Line 132: shouldCache && rc.CacheConfig != nil
WantsStore(c) == ShouldCache(c) /\ c.route_config.hasCacheConfig

\* Fault variant of AfterStore: a StoreBytes error fails the request.
StoreErrorFails(err, w) ==
    IF err THEN JSON(StatusInternalServerError, "[BricksLLM] cannot store response") ELSE w

\* Lines 139-143: an error of StoreBytes is logged; w is what the handler
\* goes on to write.
AfterStore(err, w) == w

\* Fault variant of AfterParse: a parseResult error fails the request.
ParseErrorFails(err, w) ==
    IF err THEN JSON(StatusInternalServerError, "[BricksLLM] cannot parse response") ELSE w

\* Lines 147-150: an error of parseResult is logged; w is what the handler
\* goes on to write.
AfterParse(err, w) == w

\* Fault variant of AtReturn: the two calls made at once, not deferred.
NotDeferred(calls) == <<"Body.Close", "Cancel">> \o calls

\* Lines 111 and 116: defer runRes.Cancel() and defer res.Body.Close() run
\* when the handler returns, the later deferred first, after the calls the
\* handler made from line 118 on.
AtReturn(calls) == calls \o <<"Body.Close", "Cancel">>

\* Lines 121, 128-134: the handler reaches ca.StoreBytes when the body was
\* read, the status is a success, the route caches and its TTL parses.
Stores(c, res) ==
    /\ ~res.readErr
    /\ IsSuccess(res.StatusCode)
    /\ WantsStore(c)
    /\ ~ParseDuration(c.route_config.Ttl).err

\* The handler of request r waits for ca.StoreBytes to return.
InStore(r) == pc[r] \in {"stored", "storeFailed"}

\* Lines 118-139: the body is read, the TTL parsed and ca.StoreBytes called.
\* The call blocks on the cache backend: the entry is written (or the write
\* fails) while the handler waits, and other handlers run before it returns.
Store(r) ==
    /\ pc[r] = "read"
    /\ Stores(ctx[r], runRes[r])
    /\ \E fails \in BOOLEAN :
          /\ cache' = StoreBytes(r, ctx[r].cache_key, runRes[r].Body, fails)
          /\ pc' = [pc EXCEPT ![r] = IF fails THEN "storeFailed" ELSE "stored"]
    /\ log' = [log EXCEPT ![r] = @ \o <<"ReadAll", "ParseDuration">>]
    /\ UNCHANGED <<ctx, got, runRes, resp, ctxSet, issuedAfter, checked, events>>
    /\ UNCHANGED <<mvars, rvars, lvars>>

\* Lines 118-173 for a response that is not stored, lines 139-173 once
\* ca.StoreBytes has returned: the response is accounted and the upstream
\* response written to the client; then the deferred res.Body.Close() and
\* runRes.Cancel() run.
Finish(r) ==
    /\ \/ pc[r] = "read" /\ ~Stores(ctx[r], runRes[r])
       \/ InStore(r)
    /\ LET c == ctx[r]
           res == runRes[r]
           bytes == res.Body
           ok == IsSuccess(res.StatusCode)
           stores == InStore(r)
           fails == pc[r] = "storeFailed"
           p == parseResult(c.route_config.embeddings, c.encoding_format, bytes,
                            res.step.Model, res.step.Provider)
           w == Data(CopyHeaders(res.Header), res.StatusCode, "application/json", bytes)
           before == IF stores THEN <<>>
                     ELSE <<"ReadAll">>
                          \o (IF ok /\ WantsStore(c) THEN <<"ParseDuration">> ELSE <<>>)
           calls == before
                    \o (IF stores
                        THEN <<IF fails THEN "StoreBytes:err" ELSE "StoreBytes:ok">>
                        ELSE <<>>)
                    \o (IF ok THEN <<"parseResult">> ELSE <<>>)
       IN  IF res.readErr
           THEN /\ resp' = [resp EXCEPT ![r] =
                               Written(r, JSON(StatusInternalServerError,
                                   "[BricksLLM] failed to read route response body"))]
                /\ log' = [log EXCEPT ![r] = @ \o AtReturn(<<"ReadAll", "JSON">>)]
                /\ UNCHANGED ctxSet
           ELSE /\ ctxSet' = IF ok
                             THEN [ctxSet EXCEPT ![r] =
                                     [provider |-> p.provider, model |-> @.model,
                                      accounted |-> @.accounted + 1, parseErr |-> p.err,
                                      costInUsd |-> p.costInUsd,
                                      promptTokenCount |-> p.promptTokenCount,
                                      completionTokenCount |-> p.completionTokenCount]]
                             ELSE ctxSet
                /\ resp' = [resp EXCEPT ![r] =
                               Written(r, IF ok
                                          THEN AfterParse(p.err, AfterStore(stores /\ fails, w))
                                          ELSE w)]
                /\ log' = [log EXCEPT ![r] = @ \o AtReturn(calls \o <<"Data">>)]
    /\ pc' = [pc EXCEPT ![r] = "done"]
    /\ Publish(r)
    /\ UNCHANGED <<ctx, got, runRes, cache, issuedAfter, checked>>
    /\ UNCHANGED <<mvars, rvars, lvars>>

NoContext ==
    [hasRequest |-> FALSE, key |-> FALSE, route_config |-> NoRoute, cache_key |-> "",
     settings |-> FALSE, encoding_format |-> ""]

\* The request-scoped state is dropped once the response has been flushed;
\* the slot then serves the next request.
Retire(r) ==
    /\ pc[r] = "done"
    /\ pc' = [pc EXCEPT ![r] = "idle"]
    /\ ctx' = [ctx EXCEPT ![r] = NoContext]
    /\ got' = [got EXCEPT ![r] = NoLookup]
    /\ runRes' = [runRes EXCEPT ![r] = NoRun]
    /\ resp' = [resp EXCEPT ![r] = NoResp]
    /\ ctxSet' = [ctxSet EXCEPT ![r] = NoCtxSet]
    /\ log' = [log EXCEPT ![r] = <<>>]
    /\ issuedAfter' = [issuedAfter EXCEPT ![r] = {}]
    /\ checked' = [checked EXCEPT ![r] = FALSE]
    /\ events' = [events EXCEPT ![r] = <<>>]
    /\ UNCHANGED cache
    /\ UNCHANGED <<mvars, rvars, lvars>>

\* A cache entry reaches its TTL (or is evicted).
Expire(k) ==
    /\ cache[k].present
    /\ cache' = [cache EXCEPT ![k] = NoEntry]
    /\ UNCHANGED <<pc, ctx, got, runRes, resp, ctxSet, log, issuedAfter, checked, events>>
    /\ UNCHANGED <<mvars, rvars, lvars>>

HandlerInit ==
    /\ pc = [r \in Reqs |-> "idle"]
    /\ ctx = [r \in Reqs |-> NoContext]
    /\ got = [r \in Reqs |-> NoLookup]
    /\ runRes = [r \in Reqs |-> NoRun]
    /\ resp = [r \in Reqs |-> NoResp]
    /\ ctxSet = [r \in Reqs |-> NoCtxSet]
    /\ log = [r \in Reqs |-> <<>>]
    /\ cache = [k \in CacheKeys |-> NoEntry]
    /\ issuedAfter = [r \in Reqs |-> {}]
    /\ checked = [r \in Reqs |-> FALSE]
    /\ events = [r \in Reqs |-> <<>>]


-----------------------------------------------------------------------------
(* The route run behind rc.RunSteps (route.go line 90): the failover state  *)
(* machine of the route planner, spec.md section 4.4.                       *)

\* Largest number of steps of a route.
MaxSteps == 2

\* The timeout every step carries, and the outer deadline cfg.ProxyTimeout
\* that main hands to the proxy server, in ticks of the clock.
StepTimeout == 2

ProxyTimeout == 2

\* The routes: every list of 1 .. MaxSteps steps.
RouteSteps == UNION { [1 .. n -> StepChoices] : n \in 1 .. MaxSteps }

\* What an upstream call can end in before its timeout: an HTTP response or
\* a connection error.
StepStatuses == {200, 201, 404, 502}

StepEndings ==
    [outcome : {"http"}, status : StepStatuses] \cup {[outcome |-> "refused", status |-> 0]}

\* The upstream call of step i, begun at time t and not yet ended.
OpenAttempt(i, t) == [step |-> i, at |-> t, outcome |-> "open", status |-> 0]

Is2xx(a) == a.outcome = "http" /\ a.status \in 200 .. 299

\* A retryable upstream failure: timeout, 5xx or connection error.
Retryable(a) ==
    \/ a.outcome \in {"timeout", "refused"}
    \/ a.outcome = "http" /\ a.status \in 500 .. 599

CurrentAttempt == attempts[Len(attempts)]

\* Idle -> Running(0): the handler of request r has called rc.RunSteps.
RouteBegin(r) ==
    /\ pc[r] = "run"
    /\ rstate = "Idle"
    /\ rstate' = "Running"
    /\ ridx' = 0
    /\ attempts' = <<OpenAttempt(0, now)>>
    /\ UNCHANGED <<steps, now>>
    /\ UNCHANGED <<hvars, mvars, lvars>>

\* The transition out of Running(i) when its upstream call has ended as e:
\* Succeeded on a 2xx, Running(i+1) on a retryable failure when there is a
\* further step, Failed otherwise.
StepEnds(e) ==
    LET a == [CurrentAttempt EXCEPT !.outcome = e.outcome, !.status = e.status]
        ended == [attempts EXCEPT ![Len(attempts)] = a]
    IN  IF Is2xx(a)
        THEN /\ rstate' = "Succeeded"
             /\ attempts' = ended
             /\ UNCHANGED ridx
        ELSE IF Retryable(a) /\ ridx + 1 < Len(steps)
        THEN /\ rstate' = "Running"
             /\ ridx' = ridx + 1
             /\ attempts' = Append(ended, OpenAttempt(ridx + 1, now))
        ELSE /\ rstate' = "Failed"
             /\ attempts' = ended
             /\ UNCHANGED ridx

\* The upstream of the running step answers, or refuses the connection,
\* within the step's timeout.
StepReturns(e) ==
    /\ rstate = "Running"
    /\ now - CurrentAttempt.at < StepTimeout
    /\ StepEnds(e)
    /\ UNCHANGED <<steps, now>>
    /\ UNCHANGED <<hvars, mvars, lvars>>

\* The running step's timeout expires.
StepTimesOut ==
    /\ rstate = "Running"
    /\ now - CurrentAttempt.at = StepTimeout
    /\ StepEnds([outcome |-> "timeout", status |-> 0])
    /\ UNCHANGED <<steps, now>>
    /\ UNCHANGED <<hvars, mvars, lvars>>

\* Time passes while a step waits for its upstream.
Tick ==
    /\ rstate = "Running"
    /\ now - CurrentAttempt.at < StepTimeout
    /\ now' = now + 1
    /\ UNCHANGED <<steps, rstate, ridx, attempts>>
    /\ UNCHANGED <<hvars, mvars, lvars>>

\* The client disconnects: the context of the forwarded request (line 94)
\* is cancelled and with it the upstream call in flight.
Disconnect ==
    /\ rstate = "Running"
    /\ rstate' = "Cancelled"
    /\ attempts' = [attempts EXCEPT ![Len(attempts)].outcome = "cancelled"]
    /\ UNCHANGED <<steps, ridx, now>>
    /\ UNCHANGED <<hvars, mvars, lvars>>

\* What rc.RunSteps returns when the run is over: the response of the last
\* step with its provider and model, or the cause of the last step's failure.
RouteResult ==
    LET a == CurrentAttempt
    IN  IF a.outcome = "cancelled" THEN RunFailure("context.Canceled")
        ELSE IF a.outcome = "timeout" THEN RunFailure("context.DeadlineExceeded")
        ELSE IF a.outcome = "refused" THEN RunFailure("connection refused")
        ELSE [err |-> "", StatusCode |-> a.status, Header |-> NoHeader,
              Body |-> IF Is2xx(a) THEN BodyChat ELSE BodyError,
              readErr |-> FALSE, step |-> steps[a.step + 1]]

\* rc.RunSteps returns to the handler of request r (lines 90-116).
RouteReturn(r) ==
    /\ rstate \in {"Succeeded", "Failed", "Cancelled"}
    /\ RunSteps(r, RouteResult)

RouteIdle ==
    /\ steps = <<>>
    /\ rstate = "Idle"
    /\ ridx = 0
    /\ attempts = <<>>
    /\ now = 0

-----------------------------------------------------------------------------
(* Rate admission (validator and rate-limit manager, main.go lines 219-221; *)
(* spec.md section 4.3)                                                     *)

\* Number of requests made with the one key.
NumClients == 3

Clients == 1 .. NumClients

\* The key's requests-per-window limit.
RateLimit == 2

\* The window buckets the clock passes through: 0 .. MaxWindow.
MaxWindow == 1

StatusTooManyRequests == 429

NotAdmitted == [at |-> "none", bucket |-> -1, status |-> 0]

\* Fault variant of Admits: the comparison made with the value before the
\* increment.
AdmitsOnOldCount(post) == post - 1 <= RateLimit

\* Reject if the post-increment value exceeds the limit.
Admits(post) == post <= RateLimit

\* A request with the key arrives at admission.
Request(q) ==
    /\ admission[q].at = "none"
    /\ admission' = [admission EXCEPT ![q].at = "waiting"]
    /\ UNCHANGED <<count, window>>
    /\ UNCHANGED <<hvars, mvars, rvars>>

\* The counter at (key_id, window_floor) is incremented and the new value
\* compared with the limit, in one round-trip to the rate store; a rejected
\* request is answered 429 and the counter is left as it is.
Admit(q) ==
    /\ admission[q].at = "waiting"
    /\ LET post == count[window] + 1
       IN  /\ count' = [count EXCEPT ![window] = post]
           /\ admission' = [admission EXCEPT ![q] =
                               IF Admits(post)
                               THEN [at |-> "admitted", bucket |-> window, status |-> 0]
                               ELSE [at |-> "rejected", bucket |-> window,
                                     status |-> StatusTooManyRequests]]
    /\ UNCHANGED window
    /\ UNCHANGED <<hvars, mvars, rvars>>

\* An admitted request is served and answered with the status s.
Serve(q, s) ==
    /\ admission[q].at = "admitted"
    /\ admission[q].status = 0
    /\ admission' = [admission EXCEPT ![q].status = s]
    /\ UNCHANGED <<count, window>>
    /\ UNCHANGED <<hvars, mvars, rvars>>

\* The clock passes into the next window bucket.
NextWindow ==
    /\ window < MaxWindow
    /\ window' = window + 1
    /\ UNCHANGED <<count, admission>>
    /\ UNCHANGED <<hvars, mvars, rvars>>

LimiterIdle ==
    /\ count = [b \in 0 .. MaxWindow |-> 0]
    /\ window = 0
    /\ admission = [q \in Clients |-> NotAdmitted]

-----------------------------------------------------------------------------
(* main, cmd/bricksllm/main.go lines 34-272 *)

\* The stores main connects to.
Backends ==
    {"postgresql", "rate_limit", "cost_limit", "cost_ledger", "response_cache", "access_cache"}

\* The four in-memory replicas, in the order main creates and stops them:
\* memStore, psMemStore, cpMemStore, rMemStore.
Replicas == <<"keys", "provider_settings", "custom_providers", "routes">>

\* The Redis clients main pings, in order (lines 135, 147, 159, 171, 183):
\* rateLimitRedisCache, costLimitRedisCache, costRedisStorage, apiRedisCache,
\* and apiRedisCache again.
Pinged == <<"rate_limit", "cost_limit", "cost_ledger", "response_cache", "response_cache">>

\* log.Sugar().Fatalf: the process exits with status 1, and all it ran with it.
Fatal ==
    /\ mpc' = "exited"
    /\ exitCode' = 1
    /\ refreshers' = {}
    /\ consumers' = IF consumers = "none" THEN "none" ELSE "stopped"
    /\ adminSrv' = IF adminSrv = "none" THEN "none" ELSE "closed"
    /\ proxySrv' = IF proxySrv = "none" THEN "none" ELSE "closed"
    /\ conns' = [q \in Conns |-> IF conns[q] = "inflight" THEN "killed" ELSE conns[q]]
    /\ UNCHANGED <<midx, reachable, atSignal, queue, processed>>

\* A statement of main that moves on to the statement at `to`.
Goto(to) ==
    /\ mpc' = to
    /\ midx' = 1

MainIdle ==
    /\ mpc = "off"
    /\ midx = 1
    /\ reachable = [b \in Backends |-> TRUE]
    /\ exitCode = -1
    /\ refreshers = {}
    /\ consumers = "none"
    /\ adminSrv = "none"
    /\ proxySrv = "none"
    /\ conns = [q \in Conns |-> "none"]
    /\ atSignal = {}
    /\ queue = {}
    /\ processed = {}

\* Lines 44-52: the environment is parsed and the telemetry client set up.
Configure ==
    /\ mpc = "configure"
    /\ \E ok \in BOOLEAN :
          IF ok
          THEN /\ Goto("store")
               /\ UNCHANGED <<reachable, exitCode, refreshers, consumers, adminSrv,
                              proxySrv, conns, atSignal, queue, processed>>
          ELSE Fatal
    /\ UNCHANGED <<hvars, rvars, lvars>>

\* Lines 54-102: the relational store is connected and its tables created.
ConnectStore ==
    /\ mpc = "store"
    /\ \E ok \in BOOLEAN :
          IF reachable["postgresql"] /\ ok
          THEN /\ Goto("memdb")
               /\ UNCHANGED <<reachable, exitCode, refreshers, consumers, adminSrv,
                              proxySrv, conns, atSignal, queue, processed>>
          ELSE Fatal
    /\ UNCHANGED <<hvars, rvars, lvars>>

\* Lines 104-126: each replica is created and its refresher started (Listen).
StartReplica ==
    /\ mpc = "memdb"
    /\ \E ok \in BOOLEAN :
          IF ok
          THEN /\ refreshers' = refreshers \cup {Replicas[midx]}
               /\ IF midx < Len(Replicas)
                  THEN /\ midx' = midx + 1
                       /\ UNCHANGED mpc
                  ELSE Goto("redis")
               /\ UNCHANGED <<reachable, exitCode, consumers, adminSrv, proxySrv, conns,
                              atSignal, queue, processed>>
          ELSE Fatal
    /\ UNCHANGED <<hvars, rvars, lvars>>

\* Lines 128-185: the Redis clients are created and pinged.
PingRedis ==
    /\ mpc = "redis"
    /\ IF reachable[Pinged[midx]]
       THEN /\ IF midx < Len(Pinged)
               THEN /\ midx' = midx + 1
                    /\ UNCHANGED mpc
               ELSE Goto("admin")
            /\ UNCHANGED <<reachable, exitCode, refreshers, consumers, adminSrv, proxySrv,
                           conns, atSignal, queue, processed>>
       ELSE Fatal
    /\ UNCHANGED <<hvars, rvars, lvars>>

\* Lines 199-207: the admin server is created and run.
StartAdmin ==
    /\ mpc = "admin"
    /\ \E ok \in BOOLEAN :
          IF ok
          THEN /\ adminSrv' = "serving"
               /\ Goto("tokenizer")
               /\ UNCHANGED <<reachable, exitCode, refreshers, consumers, proxySrv, conns,
                              atSignal, queue, processed>>
          ELSE Fatal
    /\ UNCHANGED <<hvars, rvars, lvars>>

\* Lines 209-214: the cost estimators and the anthropic token counter.
NewTokenCounter ==
    /\ mpc = "tokenizer"
    /\ \E ok \in BOOLEAN :
          IF ok
          THEN /\ Goto("consumers")
               /\ UNCHANGED <<reachable, exitCode, refreshers, consumers, adminSrv,
                              proxySrv, conns, atSignal, queue, processed>>
          ELSE Fatal
    /\ UNCHANGED <<hvars, rvars, lvars>>

\* Fault variant of StartConsumers: main goes on to the proxy server without
\* the subscription and the consumers.
ConsumersNotStarted ==
    /\ mpc = "consumers"
    /\ Goto("proxy")
    /\ UNCHANGED <<reachable, exitCode, refreshers, consumers, adminSrv, proxySrv, conns,
                   atSignal, queue, processed>>
    /\ UNCHANGED <<hvars, rvars, lvars>>

\* Lines 226-233: the event channel is subscribed to "event" and the
\* consumers are started.
StartConsumers ==
    /\ mpc = "consumers"
    /\ consumers' = "running"
    /\ Goto("proxy")
    /\ UNCHANGED <<reachable, exitCode, refreshers, adminSrv, proxySrv, conns, atSignal,
                   queue, processed>>
    /\ UNCHANGED <<hvars, rvars, lvars>>

\* Lines 235-240: the proxy server is created and run.
StartProxy ==
    /\ mpc = "proxy"
    /\ \E ok \in BOOLEAN :
          IF ok
          THEN /\ proxySrv' = "serving"
               /\ Goto("serving")
               /\ UNCHANGED <<reachable, exitCode, refreshers, consumers, adminSrv, conns,
                              atSignal, queue, processed>>
          ELSE Fatal
    /\ UNCHANGED <<hvars, rvars, lvars>>

\* Lines 242-244: SIGINT or SIGTERM arrives.
Signal ==
    /\ mpc = "serving"
    /\ atSignal' = {q \in Conns : conns[q] = "inflight"}
    /\ Goto("stop_consumers")
    /\ UNCHANGED <<reachable, exitCode, refreshers, consumers, adminSrv, proxySrv, conns,
                   queue, processed>>
    /\ UNCHANGED <<hvars, rvars, lvars>>

\* Line 246: eventConsumer.Stop() drains the outstanding events and stops
\* the consumers.
StopConsumers ==
    /\ mpc = "stop_consumers"
    /\ consumers' = "stopped"
    /\ processed' = processed \cup queue
    /\ queue' = {}
    /\ Goto("stop_memdb")
    /\ UNCHANGED <<reachable, exitCode, refreshers, adminSrv, proxySrv, conns, atSignal>>
    /\ UNCHANGED <<hvars, rvars, lvars>>

\* Lines 247-250: each replica's refresher is stopped.
StopReplica ==
    /\ mpc = "stop_memdb"
    /\ refreshers' = refreshers \ {Replicas[midx]}
    /\ IF midx < Len(Replicas)
       THEN /\ midx' = midx + 1
            /\ UNCHANGED mpc
       ELSE Goto("shutdown_admin")
    /\ UNCHANGED <<reachable, exitCode, consumers, adminSrv, proxySrv, conns, atSignal,
                   queue, processed>>
    /\ UNCHANGED <<hvars, rvars, lvars>>

\* Lines 254-258: as.Shutdown(ctx) closes the admin listener.
ShutdownAdmin ==
    /\ mpc = "shutdown_admin"
    /\ adminSrv' = "closed"
    /\ Goto("shutdown_proxy")
    /\ UNCHANGED <<reachable, exitCode, refreshers, consumers, proxySrv, conns, atSignal,
                   queue, processed>>
    /\ UNCHANGED <<hvars, rvars, lvars>>

\* Lines 260-264: ps.Shutdown(ctx) closes the proxy listener; the requests in
\* flight may still complete until the context is done.
ShutdownProxy ==
    /\ mpc = "shutdown_proxy"
    /\ proxySrv' = "closed"
    /\ Goto("grace")
    /\ UNCHANGED <<reachable, exitCode, refreshers, consumers, adminSrv, conns, atSignal,
                   queue, processed>>
    /\ UNCHANGED <<hvars, rvars, lvars>>

\* Lines 266-272: the 5-second context is done and main returns.
Exit ==
    /\ mpc = "grace"
    /\ mpc' = "exited"
    /\ exitCode' = 0
    /\ conns' = [q \in Conns |-> IF conns[q] = "inflight" THEN "killed" ELSE conns[q]]
    /\ UNCHANGED <<midx, reachable, refreshers, consumers, adminSrv, proxySrv, atSignal,
                   queue, processed>>
    /\ UNCHANGED <<hvars, rvars, lvars>>

\* The proxy server accepts a request.
Accept(q) ==
    /\ proxySrv = "serving"
    /\ conns[q] = "none"
    /\ conns' = [conns EXCEPT ![q] = "inflight"]
    /\ UNCHANGED <<mpc, midx, reachable, exitCode, refreshers, consumers, adminSrv,
                   proxySrv, atSignal, queue, processed>>
    /\ UNCHANGED <<hvars, rvars, lvars>>

\* A request in flight completes and its event is published on "event".
Complete(q) ==
    /\ mpc # "exited"
    /\ conns[q] = "inflight"
    /\ conns' = [conns EXCEPT ![q] = "done"]
    /\ queue' = queue \cup {q}
    /\ UNCHANGED <<mpc, midx, reachable, exitCode, refreshers, consumers, adminSrv,
                   proxySrv, atSignal, processed>>
    /\ UNCHANGED <<hvars, rvars, lvars>>

\* A running event consumer takes an event and handles it.
Consume(q) ==
    /\ consumers = "running"
    /\ q \in queue
    /\ queue' = queue \ {q}
    /\ processed' = processed \cup {q}
    /\ UNCHANGED <<mpc, midx, reachable, exitCode, refreshers, consumers, adminSrv,
                   proxySrv, conns, atSignal>>
    /\ UNCHANGED <<hvars, rvars, lvars>>

MainInit ==
    /\ HandlerInit
    /\ RouteIdle
    /\ LimiterIdle
    /\ mpc = "configure"
    /\ midx = 1
    /\ reachable \in [Backends -> BOOLEAN]
    /\ exitCode = -1
    /\ refreshers = {}
    /\ consumers = "none"
    /\ adminSrv = "none"
    /\ proxySrv = "none"
    /\ conns = [q \in Conns |-> "none"]
    /\ atSignal = {}
    /\ queue = {}
    /\ processed = {}

MainNext ==
    \/ Configure
    \/ ConnectStore
    \/ StartReplica
    \/ PingRedis
    \/ StartAdmin
    \/ NewTokenCounter
    \/ StartConsumers
    \/ StartProxy
    \/ Signal
    \/ StopConsumers
    \/ StopReplica
    \/ ShutdownAdmin
    \/ ShutdownProxy
    \/ Exit
    \/ \E q \in Conns : Accept(q)
    \/ \E q \in Conns : Complete(q)
    \/ \E q \in Conns : Consume(q)

\* The process from start-up to exit.
SpecMain == MainInit /\ [][MainNext]_vars

-----------------------------------------------------------------------------
(* The route handler's specifications *)

Init == HandlerInit /\ MainIdle /\ RouteIdle /\ LimiterIdle

\* One request at a time (the handler of the next one starts when the last
\* has answered), drawn from every context and every route run.
Next ==
    \/ \E c \in Contexts : Arrive(1, c)
    \/ Lookup(1)
    \/ \E out \in RunOutcomes : RunSteps(1, out)
    \/ Store(1)
    \/ Finish(1)
    \/ Retire(1)
    \/ \E k \in CacheKeys : Expire(k)

Spec == Init /\ [][Next]_vars

\* Requests on routes with and without a cache_config, all with the one
\* cache key, and the route runs that matter to the cache.
CacheContexts ==
    { c \in Contexts :
        /\ c.hasRequest /\ c.key /\ c.settings
        /\ c.route_config # NoRoute /\ ~c.route_config.embeddings
        /\ c.route_config.Ttl # "soon"
        /\ c.cache_key # "" /\ c.encoding_format = "" }

CacheOutcomes ==
    { o \in RunOutcomes :
        \/ o.err = "context.DeadlineExceeded"
        \/ /\ o.err = "" /\ ~o.readErr /\ o.Header = NoHeader
           /\ o.step.Provider = "openai"
           /\ \/ o.StatusCode = 200 /\ o.Body \in {BodyChat, BodyError, BodyEmpty}
              \/ o.StatusCode = 502 /\ o.Body = BodyError }

\* NumReqs requests handled concurrently over the one cache.
NextCache ==
    \/ \E r \in Reqs, c \in CacheContexts : Arrive(r, c)
    \/ \E r \in Reqs : Lookup(r)
    \/ \E r \in Reqs, out \in CacheOutcomes : RunSteps(r, out)
    \/ \E r \in Reqs : Store(r)
    \/ \E r \in Reqs : Finish(r)
    \/ \E k \in CacheKeys : Expire(k)

SpecCache == Init /\ [][NextCache]_vars

\* The requests sent through a route: with a key record, a route record and
\* provider settings, and no cache key.
RouteContexts ==
    { c \in Contexts :
        /\ c.hasRequest /\ c.key /\ c.settings
        /\ c.route_config # NoRoute /\ ~c.route_config.embeddings
        /\ c.cache_key = "" /\ c.encoding_format = "" }

InitRoute ==
    /\ HandlerInit /\ MainIdle /\ LimiterIdle
    /\ steps \in RouteSteps
    /\ rstate = "Idle"
    /\ ridx = 0
    /\ attempts = <<>>
    /\ now = 0

\* One request through a route, with the route run behind rc.RunSteps. The
\* request carries no cache key, so its handler never reaches ca.StoreBytes.
NextRoute ==
    \/ \E c \in RouteContexts : Arrive(1, c)
    \/ Lookup(1)
    \/ RouteBegin(1)
    \/ \E e \in StepEndings : StepReturns(e)
    \/ StepTimesOut
    \/ Tick
    \/ Disconnect
    \/ RouteReturn(1)
    \/ Finish(1)

SpecRoute == InitRoute /\ [][NextRoute]_vars

\* NumClients concurrent requests with one key at rate admission.
InitLimit == HandlerInit /\ MainIdle /\ RouteIdle /\ LimiterIdle

NextLimit ==
    \/ \E q \in Clients : Request(q)
    \/ \E q \in Clients : Admit(q)
    \/ \E q \in Clients, s \in {200, 502} : Serve(q, s)
    \/ NextWindow

SpecLimit == InitLimit /\ [][NextLimit]_vars


-----------------------------------------------------------------------------
(* Properties of the route handler *)

\* The handler of request r made the call named.
Called(r, name) == \E i \in 1 .. Len(log[r]) : log[r][i] = name

Count(r, name) == Cardinality({i \in 1 .. Len(log[r]) : log[r][i] = name})

\* The handler of request r called ca.StoreBytes.
Stored(r) == Called(r, "StoreBytes:ok") \/ Called(r, "StoreBytes:err")

\* GetBytes gave request r a non-empty value without an error.
FoundCached(r) == got[r].called /\ ~got[r].err /\ got[r].bytes # ""

\* Request r made no upstream call, no cache write and no accounting.
NothingDownstream(r) ==
    /\ ~Called(r, "RunSteps")
    /\ runRes[r] = NoRun
    /\ ~Called(r, "ParseDuration")
    /\ ~Stored(r)
    /\ ~Called(r, "parseResult")
    /\ ctxSet[r].accounted = 0

\* rc.RunSteps returned a response to request r and its body was read.
GotUpstream(r) == runRes[r].err = "" /\ ~runRes[r].readErr

\* The handler of request r made only the lookup and the write of the
\* cached bytes: no upstream call, no accounting and no cache write, no usage
\* attached to the context, and the client gets 200 with the cached bytes.
ServedFromCache(r) ==
    /\ pc[r] = "done"
    /\ log[r] = <<"GetBytes:ok", "Data">>
    /\ NothingDownstream(r)
    /\ ctxSet[r].provider = "cached"
    /\ resp[r].n = 1
    /\ resp[r].status = 200
    /\ resp[r].body = got[r].bytes

C3_PassThroughFidelity ==
    \A r \in Reqs :
        (pc[r] = "done" /\ GotUpstream(r) /\ runRes[r].StatusCode \notin 200 .. 299) =>
            /\ resp[r].status = runRes[r].StatusCode
            /\ resp[r].body = runRes[r].Body
            /\ \A n \in HeaderNames :
                  runRes[r].Header[n] # <<>> => resp[r].headers[n] = runRes[r].Header[n]

\* C4: every request answered with an upstream 2xx status and not served from
\* the cache is accounted exactly once, with non-negative token counts and
\* cost and the chosen provider.
C4_EveryUpstream2xxAccountedOnce ==
    \A r \in Reqs :
        (pc[r] = "done" /\ GotUpstream(r) /\ runRes[r].StatusCode \in 200 .. 299) =>
            /\ ctxSet[r].accounted = 1
            /\ Count(r, "parseResult") = 1
            /\ ctxSet[r].provider = runRes[r].step.Provider
            /\ ctxSet[r].promptTokenCount >= 0
            /\ ctxSet[r].completionTokenCount >= 0
            /\ ctxSet[r].costInUsd >= 0

\* C5: for an upstream 200 the client response is the upstream's status, the
\* copied headers and the body, whether parseResult returned an error or not.
C5_AccountingFailureInvisible ==
    \A r \in Reqs :
        (pc[r] = "done" /\ GotUpstream(r) /\ runRes[r].StatusCode = 200) =>
            /\ ctxSet[r].accounted = 1
            /\ resp[r] = [n |-> 1, status |-> 200,
                          headers |-> WriteContentType(CopyHeaders(runRes[r].Header),
                                                       "application/json"),
                          body |-> runRes[r].Body]

C5_Witness ==
    \E r \in Reqs :
        /\ pc[r] = "done"
        /\ GotUpstream(r)
        /\ runRes[r].StatusCode = 200
        /\ ctxSet[r].parseErr
        /\ resp[r].status = 200
        /\ resp[r].body = BodyChatUnknown

\* C6: no outcome of a cache operation shows in the response. A request that
\* reached the lookup and was not served from the cache (GetBytes failed, or
\* gave nothing) gets what the provider settings and the route run alone
\* decide, whatever GetBytes, the TTL and StoreBytes did.
C6_CacheErrorsInvisible ==
    \A r \in Reqs :
        (pc[r] = "done" /\ ctx[r].hasRequest /\ ctx[r].key /\ ctx[r].route_config # NoRoute
            /\ ~FoundCached(r)) =>
            /\ resp[r].n = 1
            /\ ~ctx[r].settings => (resp[r].status = 404 /\ ~Called(r, "RunSteps"))
            /\ ctx[r].settings =>
                  /\ Count(r, "RunSteps") = 1
                  /\ runRes[r].err = "context.DeadlineExceeded" => resp[r].status = 408
                  /\ runRes[r].err = "connection refused" => resp[r].status = 500
                  /\ (runRes[r].err = "" /\ runRes[r].readErr) => resp[r].status = 500
                  /\ GotUpstream(r) =>
                        /\ resp[r].status = runRes[r].StatusCode
                        /\ resp[r].body = runRes[r].Body
                        /\ resp[r].headers =
                              WriteContentType(CopyHeaders(runRes[r].Header), "application/json")

C6_Witness ==
    \E r \in Reqs :
        /\ pc[r] = "done"
        /\ Called(r, "GetBytes:fail")
        /\ Called(r, "StoreBytes:err")
        /\ resp[r].status = 200
        /\ resp[r].body = BodyChat

\* C10: without a key record the answer is 401, without a route record 404,
\* and on a cache miss without provider settings 404; in each case there is
\* no upstream call, no cache write and no accounting.
C10_EarlyErrorsTerminal ==
    \A r \in Reqs :
        (pc[r] \notin {"idle", "start"} /\ ctx[r].hasRequest) =>
            /\ ~ctx[r].key =>
                  (pc[r] = "done" /\ resp[r].status = 401 /\ resp[r].n = 1
                      /\ NothingDownstream(r))
            /\ (ctx[r].key /\ ctx[r].route_config = NoRoute) =>
                  (pc[r] = "done" /\ resp[r].status = 404 /\ resp[r].n = 1
                      /\ NothingDownstream(r))
            /\ (ctx[r].key /\ ctx[r].route_config # NoRoute /\ ~FoundCached(r)
                  /\ ~ctx[r].settings) =>
                  (pc[r] = "done" /\ resp[r].status = 404 /\ resp[r].n = 1
                      /\ NothingDownstream(r))

C10_Witness ==
    \E r \in Reqs :
        /\ pc[r] = "done"
        /\ ctx[r].hasRequest /\ ctx[r].key /\ ctx[r].route_config # NoRoute
        /\ Called(r, "GetBytes:nil")
        /\ ~ctx[r].settings
        /\ resp[r].status = 404


\* The cost estimator had no price for the model of request r's 200 response:
\* parseResult parsed the body and the estimator it called returned an error.
PriceUnknown(r) ==
    LET c == ctx[r]
        res == runRes[r]
        u == Unmarshal(res.Body, c.route_config.embeddings /\ c.encoding_format = "base64")
    IN  /\ GotUpstream(r) /\ res.StatusCode = 200
        /\ res.step.Provider \in {"azure", "openai"}
        /\ ~u.err
        /\ IF c.route_config.embeddings
           THEN EstimateEmbeddingsInputCost(res.step.Model, u.total).err
           ELSE EstimateTotalCost(u.model, u.prompt, u.completion).err

\* C15: when the estimator has no price for the model of a 200 response, the
\* client still gets the upstream response and the token counts are set on
\* the context; the cost set on the context is null, not a number, and the
\* context carries the flag unknown_model_price.
C15_UnknownModelPrice ==
    \A r \in Reqs :
        (pc[r] = "done" /\ PriceUnknown(r)) =>
            /\ resp[r].n = 1
            /\ resp[r].status = 200
            /\ resp[r].body = runRes[r].Body
            /\ ctxSet[r].promptTokenCount =
                  Unmarshal(runRes[r].Body, ctx[r].route_config.embeddings
                                              /\ ctx[r].encoding_format = "base64").prompt
            /\ ~ctx[r].route_config.embeddings =>
                  ctxSet[r].completionTokenCount = Unmarshal(runRes[r].Body, FALSE).completion
            /\ ctxSet[r].costInUsd \notin Int
            /\ "unknown_model_price" \in DOMAIN ctxSet[r]

\* The conditions under which the response of request r is to be cached: a
\* non-empty cache key, a route run that succeeded and whose body was read,
\* upstream status 200, a cache_config on the route and a ttl that parses.
Cacheable(r) ==
    /\ ctx[r].cache_key # ""
    /\ GotUpstream(r)
    /\ runRes[r].StatusCode = 200
    /\ ctx[r].route_config.hasCacheConfig
    /\ ~ParseDuration(ctx[r].route_config.Ttl).err

\* C16: the handler calls StoreBytes (once, with the cache key and the body
\* read) exactly when the response is cacheable: never for a non-200
\* response, a failed or timed-out run, a failed read or a cache hit, and in
\* the cacheable case before and whatever the accounting returns.
C16_StoreOnlySuccessful ==
    \A r \in Reqs :
        pc[r] = "done" =>
            /\ Stored(r) <=> Cacheable(r)
            /\ Count(r, "StoreBytes:ok") + Count(r, "StoreBytes:err") <= 1
            /\ (runRes[r].err = "" /\ runRes[r].StatusCode # 200) => ~Stored(r)
            /\ runRes[r].err \in {"context.DeadlineExceeded", "connection refused",
                                  "context.Canceled"} => ~Stored(r)
            /\ runRes[r].readErr => ~Stored(r)
            /\ FoundCached(r) => ~Stored(r)
            /\ Stored(r) =>
                  \E i, j \in 1 .. Len(log[r]) :
                      /\ i < j
                      /\ log[r][i] \in {"StoreBytes:ok", "StoreBytes:err"}
                      /\ log[r][j] = "parseResult"
            /\ (Called(r, "StoreBytes:ok") /\ cache[ctx[r].cache_key].present
                  /\ cache[ctx[r].cache_key].by = r) =>
                  cache[ctx[r].cache_key].val = runRes[r].Body

C16_Witness ==
    \E r \in Reqs :
        /\ pc[r] = "done"
        /\ Cacheable(r)
        /\ Called(r, "StoreBytes:ok")
        /\ ctxSet[r].parseErr
        /\ cache[ctx[r].cache_key].present
        /\ cache[ctx[r].cache_key].val = BodyGarbage

\* The positions in request r's log of the calls named.
At(r, names) == {i \in 1 .. Len(log[r]) : log[r][i] \in names}

\* C17: when RunSteps returned without error, whatever the path out of the
\* handler (200, non-200 pass-through, body read error), the response body is
\* closed once and Cancel invoked once, both after the body was read and the
\* client response written; when RunSteps returned an error (or was not
\* called), the handler invokes neither.
C17_UpstreamReleasedAfterReading ==
    \A r \in Reqs :
        pc[r] = "done" =>
            /\ runRes[r].err = "" =>
                  /\ Count(r, "Body.Close") = 1
                  /\ Count(r, "Cancel") = 1
                  /\ Count(r, "ReadAll") = 1
                  /\ Cardinality(At(r, {"Data", "JSON"})) = 1
                  /\ \A i \in At(r, {"ReadAll", "Data", "JSON"}) :
                        \A j \in At(r, {"Body.Close", "Cancel"}) : i < j
            /\ runRes[r].err # "" =>
                  (~Called(r, "Cancel") /\ ~Called(r, "Body.Close"))

C17_Witness ==
    \E r \in Reqs :
        /\ pc[r] = "done"
        /\ runRes[r].err = "" /\ runRes[r].readErr
        /\ resp[r].status = 500
        /\ log[r][Len(log[r])] = "Cancel"

\* The same for a run that failed: RunSteps returned an error and the
\* handler answered without a Cancel.
C17_WitnessFailedRun ==
    \E r \in Reqs :
        /\ pc[r] = "done"
        /\ runRes[r].err = "connection refused"
        /\ log[r] = <<"RunSteps", "JSON">>

\* The calls that reach the cache, the upstream or the accounting.
Downstream ==
    {"GetBytes:ok", "GetBytes:nil", "GetBytes:fail", "RunSteps", "ReadAll", "ParseDuration",
     "StoreBytes:ok", "StoreBytes:err", "parseResult"}

\* C19: a handler writes no response while it works and exactly one (one
\* status, one body) by the time it has ended, on every path; and once the
\* response is written it makes no upstream call, cache access or
\* accounting.
C19_ExactlyOneResponse ==
    \A r \in Reqs :
        /\ resp[r].n = Cardinality(At(r, {"Data", "JSON"}))
        /\ resp[r].n <= 1
        /\ pc[r] \in {"idle", "start", "run", "read", "stored", "storeFailed"} => resp[r] = NoResp
        /\ pc[r] = "done" => (resp[r].n = 1 /\ resp[r].status \in 100 .. 599)
        /\ \A i \in At(r, {"Data", "JSON"}) : \A j \in At(r, Downstream) : j < i

C19_Witness ==
    \E r \in Reqs :
        /\ pc[r] = "done"
        /\ ctx[r].hasRequest
        /\ log[r] = <<"GetBytes:nil", "RunSteps", "ReadAll", "ParseDuration", "StoreBytes:ok",
                      "parseResult", "Data", "Body.Close", "Cancel">>
        /\ resp[r].n = 1
        /\ resp[r].status = 200

\* The cache holds a response under request r's cache key.
CachedForKey(r) ==
    /\ ctx[r].cache_key # ""
    /\ cache[ctx[r].cache_key].present
    /\ cache[ctx[r].cache_key].val # ""

\* C20: the checks are made in the order key record, route record, cache
\* lookup, provider settings. A request without a key record is answered 401
\* and one without a route record 404 without the cache being looked at,
\* whatever it holds; a request with both whose lookup hits is answered 200
\* with the cached bytes, with or without provider settings; and the
\* provider-settings 404 is only given after a lookup (if any) that missed.
C20_CheckPrecedence ==
    \A r \in Reqs :
        (pc[r] = "done" /\ ctx[r].hasRequest) =>
            /\ ~ctx[r].key =>
                  /\ resp[r].status = 401
                  /\ resp[r].body = "[BricksLLM] api key is not registered"
                  /\ ~got[r].called /\ log[r] = <<"JSON">>
            /\ (ctx[r].key /\ ctx[r].route_config = NoRoute) =>
                  /\ resp[r].status = 404
                  /\ resp[r].body = "[BricksLLM] route config not found"
                  /\ ~got[r].called /\ log[r] = <<"JSON">>
            /\ (ctx[r].key /\ ctx[r].route_config # NoRoute /\ ctx[r].cache_key # "") =>
                  (got[r].called /\ At(r, {"GetBytes:ok", "GetBytes:nil", "GetBytes:fail"}) = {1})
            /\ (ctx[r].key /\ ctx[r].route_config # NoRoute /\ FoundCached(r)) =>
                  /\ resp[r].status = 200
                  /\ resp[r].body = got[r].bytes
                  /\ log[r] = <<"GetBytes:ok", "Data">>
            /\ resp[r].body = "[BricksLLM] provider settings not found" =>
                  /\ resp[r].status = 404
                  /\ ctx[r].key /\ ctx[r].route_config # NoRoute /\ ~ctx[r].settings
                  /\ ~FoundCached(r)
                  /\ ctx[r].cache_key # "" => got[r].called

\* A hit answers a request that has no provider settings.
C20_Witness ==
    \E r \in Reqs :
        /\ pc[r] = "done"
        /\ ctx[r].key /\ ctx[r].route_config # NoRoute
        /\ ~ctx[r].settings
        /\ FoundCached(r)
        /\ resp[r].status = 200
        /\ resp[r].body = got[r].bytes

\* A request without a key record is answered 401 while the cache holds a
\* response under its cache key.
C20_WitnessNoKey ==
    \E r \in Reqs :
        /\ pc[r] = "done"
        /\ ctx[r].hasRequest /\ ~ctx[r].key /\ ctx[r].route_config # NoRoute
        /\ CachedForKey(r)
        /\ resp[r].status = 401

\* A request without a route record is answered 404 while the cache holds a
\* response under its cache key.
C20_WitnessNoRoute ==
    \E r \in Reqs :
        /\ pc[r] = "done"
        /\ ctx[r].hasRequest /\ ctx[r].key /\ ctx[r].route_config = NoRoute
        /\ CachedForKey(r)
        /\ resp[r].status = 404

\* The precondition of cache idempotence: p and q are two finished requests
\* with the same non-empty cache key on routes with a cache_config, p stored
\* its 200 response before q was issued, and p's entry was still in the cache
\* when q looked it up.
SecondAfterStore(p, q) ==
    /\ p # q
    /\ pc[p] = "done" /\ pc[q] = "done"
    /\ ctx[p].cache_key # "" /\ ctx[q].cache_key = ctx[p].cache_key
    /\ ctx[p].route_config.hasCacheConfig /\ ctx[q].route_config.hasCacheConfig
    /\ Called(p, "StoreBytes:ok") /\ resp[p].status = 200
    /\ p \in issuedAfter[q]
    /\ got[q].called /\ got[q].by = p

\* C2: with a cache backend that answers the second's lookup, the second
\* request returns the first's body, and the two requests produce exactly one
\* upstream call and exactly one usage event between them, both the first's.
C2_CacheIdempotence ==
    \A p, q \in Reqs :
        (SecondAfterStore(p, q) /\ ~got[q].err) =>
            /\ resp[q].body = resp[p].body
            /\ Count(p, "RunSteps") = 1 /\ Count(q, "RunSteps") = 0
            /\ Len(events[p]) = 1 /\ Len(events[q]) = 0

\* rc.RunSteps returned an error to request r.
RunFailed(r) == runRes[r].err \in RunErrors

\* C11: a route run that fails with context.DeadlineExceeded is answered 408
\* with the error "[BricksLLM] request timeout", and one that fails with any
\* other error is answered 500; in both cases that is the one response, no
\* upstream body is read or forwarded, nothing is cached and no accounting
\* is run.
C11_TimeoutMapping ==
    \A r \in Reqs :
        (pc[r] \notin {"idle", "start", "run"} /\ RunFailed(r)) =>
            /\ pc[r] = "done"
            /\ resp[r].n = 1
            /\ runRes[r].err = "context.DeadlineExceeded" =>
                  (resp[r].status = 408 /\ resp[r].body = "[BricksLLM] request timeout")
            /\ runRes[r].err # "context.DeadlineExceeded" => resp[r].status = 500
            /\ resp[r].body \notin Bodies
            /\ ~Called(r, "ReadAll") /\ ~Called(r, "Data")
            /\ ~Called(r, "ParseDuration") /\ ~Stored(r)
            /\ ~Called(r, "parseResult") /\ ctxSet[r].accounted = 0
            /\ ctxSet[r].costInUsd = 0 /\ ctxSet[r].promptTokenCount = 0

C11_Witness ==
    \E r \in Reqs :
        /\ pc[r] = "done"
        /\ runRes[r].err = "context.DeadlineExceeded"
        /\ ctx[r].cache_key # "" /\ ctx[r].route_config.hasCacheConfig
        /\ resp[r].status = 408

-----------------------------------------------------------------------------
(* Properties of the route run *)

\* The step the route run ended at.
LastStep == steps[CurrentAttempt.step + 1]

\* The steps are attempted one at a time in list order from step 0, each
\* after a retryable failure of the one before, and the run succeeds at the
\* first 2xx.
FailoverInOrder ==
    /\ Len(attempts) <= Len(steps)
    /\ \A i \in 1 .. Len(attempts) :
          /\ attempts[i].step = i - 1
          /\ i < Len(attempts) => Retryable(attempts[i])
          /\ attempts[i].outcome = "open" => (i = Len(attempts) /\ rstate = "Running")
    /\ rstate = "Succeeded" <=> (attempts # <<>> /\ Is2xx(CurrentAttempt))
    /\ rstate = "Failed" =>
          /\ ~Is2xx(CurrentAttempt)
          /\ ~Retryable(CurrentAttempt) \/ Len(attempts) = Len(steps)

\* C12: the steps of a route are attempted sequentially in list order from
\* step 0, step i+1 only after a retryable failure of step i and only if
\* there is one; the run succeeds at the first step that returns 2xx, and
\* the response the client gets and the provider and model set on the
\* context for accounting are those of that step.
C12_RouteFailoverOrder ==
    /\ FailoverInOrder
    /\ (pc[1] = "done" /\ rstate = "Succeeded") =>
          /\ resp[1].status = CurrentAttempt.status
          /\ resp[1].body = runRes[1].Body
          /\ runRes[1].step = LastStep
          /\ ctxSet[1].model = LastStep.Model
          /\ ctxSet[1].provider = LastStep.Provider

\* C13: a route run of k steps makes at most k attempts and ends in
\* Succeeded, Failed or Cancelled; and it does not go on past the outer
\* deadline: a run still going when ProxyTimeout expires is cancelled and
\* the request answered 408 request timeout.
C13_RouteTerminates ==
    /\ Len(attempts) <= Len(steps)
    /\ now <= Len(steps) * StepTimeout
    /\ Called(1, "RunSteps") => rstate \in {"Succeeded", "Failed", "Cancelled"}
    /\ rstate = "Running" => now <= ProxyTimeout
    /\ (pc[1] = "done" /\ now > ProxyTimeout) =>
          (resp[1].status = 408 /\ resp[1].body = "[BricksLLM] request timeout")

-----------------------------------------------------------------------------
(* Properties of rate admission *)

\* The requests whose admission was decided in window bucket b.
DecidedIn(b) == {q \in Clients : admission[q].bucket = b}

AdmittedIn(b) == {q \in DecidedIn(b) : admission[q].at = "admitted"}

RejectedIn(b) == {q \in DecidedIn(b) : admission[q].at = "rejected"}

\* C14: of the concurrent requests with one key, at most RateLimit are
\* admitted in one window bucket, and exactly RateLimit when more than that
\* asked; the admitted are never answered 429 and the rejected always are;
\* the counter counts every request that asked, a rejected one included (it
\* is not decremented on a reject).
C14_RateAdmissionAtomic ==
    \A b \in 0 .. MaxWindow :
        /\ Cardinality(AdmittedIn(b)) <= RateLimit
        /\ Cardinality(DecidedIn(b)) >= RateLimit => Cardinality(AdmittedIn(b)) = RateLimit
        /\ Cardinality(DecidedIn(b)) < RateLimit => RejectedIn(b) = {}
        /\ \A q \in AdmittedIn(b) : admission[q].status # StatusTooManyRequests
        /\ \A q \in RejectedIn(b) : admission[q].status = StatusTooManyRequests
        /\ count[b] = Cardinality(DecidedIn(b))

C14_Witness ==
    \E b \in 0 .. MaxWindow :
        /\ Cardinality(DecidedIn(b)) = RateLimit + 1
        /\ Cardinality(AdmittedIn(b)) = RateLimit
        /\ Cardinality(RejectedIn(b)) = 1
        /\ \A q \in AdmittedIn(b) : admission[q].status = 200
        /\ count[b] = RateLimit + 1

-----------------------------------------------------------------------------
(* Properties of start-up and shutdown *)

\* C7: the shutdown steps happen in the listed order: the listeners stop
\* accepting before the event consumers are stopped, the consumers before
\* the refreshers, the refreshers before the servers are closed and the
\* process exits.
C7_ShutdownOrder ==
    /\ consumers = "stopped" => (adminSrv # "serving" /\ proxySrv # "serving")
    /\ (mpc \in {"stop_memdb", "shutdown_admin", "shutdown_proxy", "grace"}
            /\ refreshers # {"keys", "provider_settings", "custom_providers", "routes"})
          => consumers = "stopped"
    /\ (exitCode = 0) =>
          (refreshers = {} /\ consumers = "stopped" /\ adminSrv = "closed"
              /\ proxySrv = "closed")

\* C8: after a clean exit, every request that was in flight when the signal
\* arrived and completed has had its event processed by an event consumer.
C8_NoEventLost ==
    mpc = "exited" =>
        \A q \in atSignal : conns[q] = "done" => (exitCode = 0 /\ q \in processed)

\* C9: when any required backend cannot be reached, the proxy server never
\* serves and the process exits with a non-zero status.
C9_FailsClosed ==
    (\E b \in Backends : ~reachable[b]) =>
        /\ proxySrv = "none"
        /\ mpc = "exited" => exitCode = 1

\* The four replicas: keys, provider settings, custom providers, routes.
AllReplicas == {Replicas[i] : i \in 1 .. Len(Replicas)}

\* C18: the proxy server starts serving only when the refreshers of all four
\* replicas run and the event consumers (subscribed to "event") run; a
\* request is accepted only by a serving proxy server, and an event is
\* published only once the consumers have been started.
C18_StartupOrder ==
    [][ /\ (proxySrv = "none" /\ proxySrv' # "none") =>
              /\ proxySrv' = "serving"
              /\ refreshers = AllReplicas /\ refreshers' = AllReplicas
              /\ consumers = "running" /\ consumers' = "running"
        /\ \A q \in Conns :
              (conns[q] = "none" /\ conns'[q] # "none") =>
                  (proxySrv = "serving" /\ consumers # "none")
        /\ queue' # queue => (consumers # "none" /\ proxySrv # "none")
      ]_vars

C18_Witness ==
    /\ mpc = "serving"
    /\ proxySrv = "serving"
    /\ refreshers = AllReplicas
    /\ consumers = "running"
    /\ \E q \in Conns : conns[q] = "done" /\ q \in processed

====
